---- MODULE Spec2Model ----
(***************************************************************************)
(* Model of src/Interpretador_bytecode.py: the two-pass loader             *)
(* (BytecodeInterpreter.load_bytecode) and the fetch/dispatch loop         *)
(* (BytecodeInterpreter.run) of the bytecode stack machine.                *)
(*                                                                         *)
(* A source line is modelled after tokenisation: `toks` are the            *)
(* whitespace-separated tokens that precede any `#`, `colon` tells whether *)
(* the stripped text ends in a `:` that follows the last token, `comment`  *)
(* whether a trailing `# ...` comment is present.  A label name is the     *)
(* token sequence in front of the colon.                                   *)
(***************************************************************************)
EXTENDS Integers, Sequences, FiniteSets, TLC

VARIABLES
    source,        \* bytecode_text.splitlines(), one record per line
    stdin,         \* the lines of the input sink that READ reads from
    nread,         \* number of lines of stdin consumed so far
    labels,        \* self.labels
    instructions,  \* self.instructions
    stack,         \* self.stack
    memory,        \* self.memory
    ip,            \* self.ip
    halted,        \* self.halted
    out,           \* what print() wrote to standard output
    err,           \* what print(..., file=sys.stderr) wrote, one record per line
    pc,            \* position of the caller: start, loaded, running, returned
    steps,         \* number of loop iterations of run executed so far
    runs,          \* number of times run() has been entered
    frames,        \* history: the CALLs whose return address is still untouched
    prev           \* history: the previous dispatch (its instruction, the stack and
                   \* the variable store it started from), <<>> before the first

vars == <<source, stdin, nread, labels, instructions, stack, memory, ip, halted,
          out, err, pc, steps, runs, frames, prev>>

----------------------------------------------------------------------------
(* Bounds of the model *)

MaxLines == 3
MaxSteps == 12
MaxRuns == 2

----------------------------------------------------------------------------
(* Text helpers *)

\* int(s) succeeds exactly on these token texts (the ones the model uses)
IntLiteral ==
    [t \in {"-3", "-1", "0", "1", "2", "3", "4", "5", "9", "10"} |->
        CASE t = "-3" -> 0 - 3
          [] t = "-1" -> 0 - 1
          [] t = "0" -> 0
          [] t = "1" -> 1
          [] t = "2" -> 2
          [] t = "3" -> 3
          [] t = "4" -> 4
          [] t = "5" -> 5
          [] t = "9" -> 9
          [] t = "10" -> 10]

\* str.upper() on the tokens the model uses as a first token
Upper(t) ==
    CASE t = "push" -> "PUSH"
      [] t = "halt" -> "HALT"
      [] t = "foo" -> "FOO"
      [] t = "x" -> "X"
      [] t = "a" -> "A"
      [] OTHER -> t

\* _parse_arg as it would be if it never tried int()
ParseArgNeverInt(arg_str) == [isint |-> FALSE, int |-> 0, str |-> arg_str]

\* _parse_arg: int(arg_str) when that succeeds, else the stripped string
ParseArg(arg_str) ==
    IF arg_str \in DOMAIN IntLiteral
    THEN [isint |-> TRUE, int |-> IntLiteral[arg_str], str |-> ""]
    ELSE [isint |-> FALSE, int |-> 0, str |-> arg_str]

\* dict assignment d[k] = v
Put(d, k, v) == [x \in (DOMAIN d) \cup {k} |-> IF x = k THEN v ELSE d[x]]

EmptyDict == [x \in {} |-> 0]

\* division rounding toward zero, as C's / does
FloorDivTruncating(op1, op2) ==
    LET n == IF op1 < 0 THEN 0 - op1 ELSE op1
        d == IF op2 < 0 THEN 0 - op2 ELSE op2
    IN IF (op1 < 0) = (op2 < 0) THEN n \div d ELSE 0 - (n \div d)

\* python's floor division and remainder on integers, op2 # 0
FloorDiv(op1, op2) ==
    IF op2 > 0 THEN op1 \div op2 ELSE (0 - op1) \div (0 - op2)

FloorMod(op1, op2) == op1 - op2 * FloorDiv(op1, op2)

----------------------------------------------------------------------------
(* load_bytecode, pass 1 *)

\* the line with its comment cut and the result stripped
StripLine(line_content) == [toks |-> line_content.toks, colon |-> line_content.colon]

LoadFault(kind, line_num, opcode) ==
    [kind |-> kind, line |-> line_num, index |-> 0 - 1, opcode |-> opcode]

\* the checks on a label declaration: empty name, name already in the table
LabelFaultIgnoringDuplicates(label_name, lbls) ==
    IF label_name = <<>> THEN <<"EmptyLabel">> ELSE <<>>

LabelFault(label_name, lbls) ==
    IF label_name = <<>> THEN <<"EmptyLabel">>
    ELSE IF label_name \in DOMAIN lbls THEN <<"DuplicateLabel">>
    ELSE <<>>

\* a label bound one instruction too far
BindLabelOffByOne(lbls, label_name, instruction_index_counter) ==
    Put(lbls, label_name, instruction_index_counter + 1)

\* self.labels[label_name] = instruction_index_counter
BindLabel(lbls, label_name, instruction_index_counter) ==
    Put(lbls, label_name, instruction_index_counter)

RECURSIVE Pass1(_, _, _)
Pass1(lines, line_num_human, acc) ==
    IF line_num_human > Len(lines) THEN acc
    ELSE
      LET line == StripLine(lines[line_num_human]) IN
      IF line.toks = <<>> /\ ~line.colon
      THEN Pass1(lines, line_num_human + 1, acc)
      ELSE IF line.colon
      THEN
        LET label_name == line.toks
            fault == LabelFault(label_name, acc.labels)
        IN
        IF fault # <<>>
        THEN [acc EXCEPT !.fault = <<LoadFault(fault[1], line_num_human, "")>>]
        ELSE Pass1(lines, line_num_human + 1,
                   [acc EXCEPT !.labels = BindLabel(@, label_name, acc.counter)])
      ELSE Pass1(lines, line_num_human + 1,
                 [acc EXCEPT
                    !.raw = Append(@, [text |-> line.toks,
                                       original_line_num |-> line_num_human]),
                    !.counter = @ + 1])

Pass1Start(old_labels) ==
    [labels |-> old_labels, raw |-> <<>>, counter |-> 0, fault |-> <<>>]

----------------------------------------------------------------------------
(* load_bytecode, pass 2 *)

JumpOpcodes == {"JMP", "JZ", "JNZ", "CALL"}

Parsed(args) == [ok |-> TRUE, args |-> args, kind |-> ""]
Rejected(kind) == [ok |-> FALSE, args |-> <<>>, kind |-> kind]

\* the operand validation of one instruction line (the try block)
ParseArgs(opcode, args_str, lbls) ==
    IF opcode \in JumpOpcodes
    THEN
      IF Len(args_str) # 1 THEN Rejected("ParseError")
      ELSE
        LET arg_val == ParseArg(args_str[1]) IN
        IF ~arg_val.isint
        THEN IF <<arg_val.str>> \notin DOMAIN lbls
             THEN Rejected("UndefinedLabel")
             ELSE Parsed(<<lbls[<<arg_val.str>>]>>)
        ELSE Parsed(<<arg_val.int>>)
    ELSE IF opcode = "PUSH"
    THEN
      IF Len(args_str) # 1 THEN Rejected("ParseError")
      ELSE IF args_str[1] \notin DOMAIN IntLiteral THEN Rejected("ParseError")
      ELSE Parsed(<<IntLiteral[args_str[1]]>>)
    ELSE IF opcode \in {"STORE", "LOAD"}
    THEN
      IF Len(args_str) # 1 THEN Rejected("ParseError")
      ELSE
        LET var_name == ParseArg(args_str[1]) IN
        IF var_name.isint \/ var_name.str = "" THEN Rejected("ParseError")
        ELSE Parsed(<<var_name.str>>)
    ELSE
      IF args_str # <<>> THEN Rejected("ParseError")
      ELSE Parsed(<<>>)

RECURSIVE Pass2(_, _, _, _)
Pass2(raw, k, lbls, acc) ==
    IF k > Len(raw) THEN acc
    ELSE
      LET parts == raw[k].text
          original_line_num == raw[k].original_line_num
          opcode == Upper(parts[1])
          args_str == Tail(parts)
          res == ParseArgs(opcode, args_str, lbls)
      IN
      IF ~res.ok
      THEN [acc EXCEPT !.fault = <<LoadFault(res.kind, original_line_num, opcode)>>]
      ELSE Pass2(raw, k + 1, lbls,
                 [acc EXCEPT !.instructions =
                    Append(@, [opcode |-> opcode, args |-> res.args,
                               original_line_num |-> original_line_num])])

Pass2Start(old_instructions) == [instructions |-> old_instructions, fault |-> <<>>]

----------------------------------------------------------------------------
(* run: the dispatch of one instruction *)

Fault(kind) == <<kind>>
NoFault == <<>>

\* what one dispatch leaves behind: the interpreter's fields, the increment
\* of ip the loop applies afterwards, and the exception raised, if any
Result(stk, mem, newip, hlt, o, e, consumed, inc, exc) ==
    [stack |-> stk, memory |-> mem, ip |-> newip, halted |-> hlt, out |-> o,
     err |-> e, nread |-> consumed, inc |-> inc, exc |-> exc]

Top(stk) == stk[Len(stk)]
Pop(stk) == SubSeq(stk, 1, Len(stk) - 1)
Pop2(stk) == SubSeq(stk, 1, Len(stk) - 2)

\* a dispatch that touches the stack alone
OnStack(stk, exc) ==
    Result(stk, memory, ip, halted, out, err, nread, 1, exc)

\* a dispatch that sets ip itself (next_ip_increment = 0)
Goto(stk, target_ip) ==
    Result(stk, memory, target_ip, halted, out, err, nread, 0, NoFault)

ExecPUSH(args) == OnStack(Append(stack, args[1]), NoFault)

ExecPOP ==
    IF stack = <<>> THEN OnStack(stack, Fault("StackUnderflow"))
    ELSE OnStack(Pop(stack), NoFault)

ExecArith(opcode) ==
    IF Len(stack) < 2 THEN OnStack(stack, Fault("StackUnderflow"))
    ELSE
      LET op2 == Top(stack)
          op1 == Top(Pop(stack))
          rest == Pop2(stack)
      IN
      CASE opcode = "ADD" -> OnStack(Append(rest, op1 + op2), NoFault)
        [] opcode = "SUB" -> OnStack(Append(rest, op1 - op2), NoFault)
        [] opcode = "MUL" -> OnStack(Append(rest, op1 * op2), NoFault)
        [] opcode = "DIV" ->
             IF op2 = 0 THEN OnStack(rest, Fault("DivideByZero"))
             ELSE OnStack(Append(rest, FloorDiv(op1, op2)), NoFault)
        [] opcode = "MOD" ->
             IF op2 = 0 THEN OnStack(rest, Fault("DivideByZero"))
             ELSE OnStack(Append(rest, FloorMod(op1, op2)), NoFault)

ExecNEG ==
    IF stack = <<>> THEN OnStack(stack, Fault("StackUnderflow"))
    ELSE OnStack(Append(Pop(stack), 0 - Top(stack)), NoFault)

\* STORE binding the top of the stack without popping it
ExecSTOREKeepsValue(args) ==
    IF stack = <<>> THEN OnStack(stack, Fault("StackUnderflow"))
    ELSE
      LET var_name == args[1] IN
      Result(stack, Put(memory, var_name, Top(stack)), ip, halted, out,
             err, nread, 1, NoFault)

ExecSTORE(args) ==
    IF stack = <<>> THEN OnStack(stack, Fault("StackUnderflow"))
    ELSE
      LET var_name == args[1] IN
      Result(Pop(stack), Put(memory, var_name, Top(stack)), ip, halted, out,
             err, nread, 1, NoFault)

ExecLOAD(args) ==
    LET var_name == args[1] IN
    IF var_name \notin DOMAIN memory
    THEN OnStack(stack, Fault("UndefinedVariable"))
    ELSE OnStack(Append(stack, memory[var_name]), NoFault)

\* JMP with the bound of CALL: a target equal to the program length refused
ExecJMPStrict(args) ==
    LET target_ip == args[1] IN
    IF ~(0 <= target_ip /\ target_ip < Len(instructions))
    THEN OnStack(stack, Fault("InvalidAddress"))
    ELSE Goto(stack, target_ip)

ExecJMP(args) ==
    LET target_ip == args[1] IN
    IF ~(0 <= target_ip /\ target_ip <= Len(instructions))
    THEN OnStack(stack, Fault("InvalidAddress"))
    ELSE Goto(stack, target_ip)

\* JZ/JNZ as it would be if it tested the top of the stack without popping it
ExecJZJNZPeek(opcode, args) ==
    IF stack = <<>> THEN OnStack(stack, Fault("StackUnderflow"))
    ELSE
      LET val == Top(stack)
          condition_met == (opcode = "JZ" /\ val = 0) \/ (opcode = "JNZ" /\ val # 0)
      IN
      IF condition_met
      THEN
        LET target_ip == args[1] IN
        IF ~(0 <= target_ip /\ target_ip <= Len(instructions))
        THEN OnStack(stack, Fault("InvalidAddress"))
        ELSE Goto(stack, target_ip)
      ELSE OnStack(stack, NoFault)

ExecJZJNZ(opcode, args) ==
    IF stack = <<>> THEN OnStack(stack, Fault("StackUnderflow"))
    ELSE
      LET val == Top(stack)
          rest == Pop(stack)
          condition_met == (opcode = "JZ" /\ val = 0) \/ (opcode = "JNZ" /\ val # 0)
      IN
      IF condition_met
      THEN
        LET target_ip == args[1] IN
        IF ~(0 <= target_ip /\ target_ip <= Len(instructions))
        THEN OnStack(rest, Fault("InvalidAddress"))
        ELSE Goto(rest, target_ip)
      ELSE OnStack(rest, NoFault)

ExecHALT ==
    Result(stack, memory, ip, TRUE, out, err, nread, 1, NoFault)

\* a comparison that pops its first operand before it tests the depth
ExecComparePopsFirst(opcode) ==
    IF Len(stack) < 2 THEN OnStack(<<>>, Fault("StackUnderflow"))
    ELSE
      LET op2 == Top(stack)
          op1 == Top(Pop(stack))
          rest == Pop2(stack)
          holds == CASE opcode = "EQ" -> op1 = op2
                     [] opcode = "NEQ" -> op1 # op2
                     [] opcode = "LT" -> op1 < op2
                     [] opcode = "GT" -> op1 > op2
                     [] opcode = "LE" -> op1 <= op2
                     [] opcode = "GE" -> op1 >= op2
          result == IF holds THEN 1 ELSE 0
      IN OnStack(Append(rest, result), NoFault)

ExecCompare(opcode) ==
    IF Len(stack) < 2 THEN OnStack(stack, Fault("StackUnderflow"))
    ELSE
      LET op2 == Top(stack)
          op1 == Top(Pop(stack))
          rest == Pop2(stack)
          holds == CASE opcode = "EQ" -> op1 = op2
                     [] opcode = "NEQ" -> op1 # op2
                     [] opcode = "LT" -> op1 < op2
                     [] opcode = "GT" -> op1 > op2
                     [] opcode = "LE" -> op1 <= op2
                     [] opcode = "GE" -> op1 >= op2
          result == IF holds THEN 1 ELSE 0
      IN OnStack(Append(rest, result), NoFault)

\* CALL with the bound of JMP: a target equal to the program length accepted
ExecCALLInclusive(args, current_ip_for_reporting) ==
    LET target_ip == args[1] IN
    IF ~(0 <= target_ip /\ target_ip <= Len(instructions))
    THEN OnStack(stack, Fault("InvalidAddress"))
    ELSE Goto(Append(stack, current_ip_for_reporting + 1), target_ip)

\* CALL pushing its own index as the return address
ExecCALLPushesOwnIndex(args, current_ip_for_reporting) ==
    LET target_ip == args[1] IN
    IF ~(0 <= target_ip /\ target_ip < Len(instructions))
    THEN OnStack(stack, Fault("InvalidAddress"))
    ELSE Goto(Append(stack, current_ip_for_reporting), target_ip)

ExecCALL(args, current_ip_for_reporting) ==
    LET target_ip == args[1] IN
    IF ~(0 <= target_ip /\ target_ip < Len(instructions))
    THEN OnStack(stack, Fault("InvalidAddress"))
    ELSE Goto(Append(stack, current_ip_for_reporting + 1), target_ip)

\* RET checking only that the popped address is not negative
ExecRETNoUpperBound ==
    IF stack = <<>> THEN OnStack(stack, Fault("StackUnderflow"))
    ELSE
      LET ret_addr == Top(stack)
          rest == Pop(stack)
      IN
      IF ~(0 <= ret_addr)
      THEN OnStack(rest, Fault("InvalidReturnAddress"))
      ELSE Goto(rest, ret_addr)

\* RET with the bound of CALL: an address equal to the program length refused
ExecRETStrict ==
    IF stack = <<>> THEN OnStack(stack, Fault("StackUnderflow"))
    ELSE
      LET ret_addr == Top(stack)
          rest == Pop(stack)
      IN
      IF ~(0 <= ret_addr /\ ret_addr < Len(instructions))
      THEN OnStack(rest, Fault("InvalidReturnAddress"))
      ELSE Goto(rest, ret_addr)

ExecRET ==
    IF stack = <<>> THEN OnStack(stack, Fault("StackUnderflow"))
    ELSE
      LET ret_addr == Top(stack)
          rest == Pop(stack)
      IN
      IF ~(0 <= ret_addr /\ ret_addr <= Len(instructions))
      THEN OnStack(rest, Fault("InvalidReturnAddress"))
      ELSE Goto(rest, ret_addr)

\* PRINT popping the value it prints
ExecPRINTPops ==
    IF stack = <<>> THEN OnStack(stack, Fault("StackUnderflow"))
    ELSE Result(Pop(stack), memory, ip, halted, Append(out, Top(stack)), err,
                nread, 1, NoFault)

ExecPRINT ==
    IF stack = <<>> THEN OnStack(stack, Fault("StackUnderflow"))
    ELSE Result(stack, memory, ip, halted, Append(out, Top(stack)), err, nread,
                1, NoFault)

\* the diagnostic the EOFError handler of READ prints
EofDiagnostic(original_line_num, opcode) ==
    [kind |-> "EndOfInput", line |-> original_line_num, index |-> 0 - 1,
     opcode |-> opcode]

\* READ letting the end of input reach the except clause of the loop
ExecREADEofRaises(original_line_num) ==
    IF nread >= Len(stdin)
    THEN OnStack(stack, Fault("InvalidInput"))
    ELSE
      LET val_str == stdin[nread + 1] IN
      IF val_str \notin DOMAIN IntLiteral
      THEN Result(stack, memory, ip, halted, out, err, nread + 1, 1,
                  Fault("InvalidInput"))
      ELSE Result(Append(stack, IntLiteral[val_str]), memory, ip, halted, out,
                  err, nread + 1, 1, NoFault)

ExecREAD(original_line_num) ==
    IF nread >= Len(stdin)
    THEN Result(stack, memory, ip, TRUE, out,
                Append(err, EofDiagnostic(original_line_num, "READ")), nread,
                1, NoFault)
    ELSE
      LET val_str == stdin[nread + 1] IN
      IF val_str \notin DOMAIN IntLiteral
      THEN Result(stack, memory, ip, halted, out, err, nread + 1, 1,
                  Fault("InvalidInput"))
      ELSE Result(Append(stack, IntLiteral[val_str]), memory, ip, halted, out,
                  err, nread + 1, 1, NoFault)

ExecUnknown == OnStack(stack, Fault("UnknownOpcode"))

\* the if/elif chain of run
Dispatch(opcode, args, original_line_num, current_ip_for_reporting) ==
    CASE opcode = "PUSH" -> ExecPUSH(args)
      [] opcode = "POP" -> ExecPOP
      [] opcode \in {"ADD", "SUB", "MUL", "DIV", "MOD"} -> ExecArith(opcode)
      [] opcode = "NEG" -> ExecNEG
      [] opcode = "STORE" -> ExecSTORE(args)
      [] opcode = "LOAD" -> ExecLOAD(args)
      [] opcode = "JMP" -> ExecJMP(args)
      [] opcode \in {"JZ", "JNZ"} -> ExecJZJNZ(opcode, args)
      [] opcode = "HALT" -> ExecHALT
      [] opcode \in {"EQ", "NEQ", "LT", "GT", "LE", "GE"} -> ExecCompare(opcode)
      [] opcode = "CALL" -> ExecCALL(args, current_ip_for_reporting)
      [] opcode = "RET" -> ExecRET
      [] opcode = "PRINT" -> ExecPRINT
      [] opcode = "READ" -> ExecREAD(original_line_num)
      [] OTHER -> ExecUnknown

\* the diagnostic the except clause of run prints
\* the except clause reporting the index of the instruction after the faulting one
RuntimeDiagnosticNextIndex(kind, current_ip_for_reporting, original_line_num, opcode) ==
    [kind |-> kind, line |-> original_line_num,
     index |-> current_ip_for_reporting + 1, opcode |-> opcode]

RuntimeDiagnostic(kind, current_ip_for_reporting, original_line_num, opcode) ==
    [kind |-> kind, line |-> original_line_num,
     index |-> current_ip_for_reporting, opcode |-> opcode]

----------------------------------------------------------------------------
(* History of the calls in progress *)

\* how many values the dispatch of opcode pops from a stack of that depth
\* (the stack.pop() calls it reaches)
Popped(opcode, depth) ==
    CASE opcode \in {"POP", "NEG", "STORE", "JZ", "JNZ", "RET"} ->
           IF depth >= 1 THEN 1 ELSE 0
      [] opcode \in {"ADD", "SUB", "MUL", "DIV", "MOD",
                     "EQ", "NEQ", "LT", "GT", "LE", "GE"} ->
           IF depth >= 2 THEN 2 ELSE 0
      [] OTHER -> 0

\* the frames whose return address slot the dispatch does not reach
RECURSIVE Untouched(_, _)
Untouched(frs, lowest) ==
    IF frs = <<>> THEN <<>>
    ELSE IF Len(frs[Len(frs)].base) + 1 > lowest
    THEN Untouched(SubSeq(frs, 1, Len(frs) - 1), lowest)
    ELSE frs

\* frames after the dispatch of opcode at index i on stack stk: a CALL that
\* did not fault opens a frame [ret: the index after the CALL, base: the
\* stack before it]; a dispatch that pops a frame's return address, or
\* anything below it, closes the frame
NextFrames(frs, opcode, i, stk, faulted) ==
    LET kept == Untouched(frs, Len(stk) - Popped(opcode, Len(stk))) IN
    IF opcode = "CALL" /\ ~faulted
    THEN Append(kept, [ret |-> i + 1, base |-> stk])
    ELSE kept

----------------------------------------------------------------------------
(* The programs and inputs the model runs *)

Instr(toks) == [toks |-> toks, colon |-> FALSE, comment |-> FALSE]
Label(name) == [toks |-> <<name>>, colon |-> TRUE, comment |-> FALSE]
Commented(line) == [line EXCEPT !.comment = TRUE]
BlankLine == [toks |-> <<>>, colon |-> FALSE, comment |-> FALSE]
CommentLine == [toks |-> <<>>, colon |-> FALSE, comment |-> TRUE]
EmptyLabelLine == [toks |-> <<>>, colon |-> TRUE, comment |-> FALSE]

\* all sequences over S of length 0..n
SeqsUpTo(S, n) == UNION {[1..k -> S] : k \in 0..n}

\* instruction lines of the programs that exercise the engine
RunLines ==
    { Instr(<<"PUSH", "-3">>), Instr(<<"PUSH", "0">>), Instr(<<"PUSH", "2">>),
      Instr(<<"POP">>), Instr(<<"ADD">>), Instr(<<"SUB">>), Instr(<<"DIV">>),
      Instr(<<"MOD">>), Instr(<<"NEG">>), Instr(<<"LT">>),
      Instr(<<"STORE", "x">>), Instr(<<"LOAD", "x">>),
      Instr(<<"JMP", "3">>), Instr(<<"JMP", "9">>),
      Instr(<<"JZ", "1">>), Instr(<<"JZ", "9">>), Instr(<<"JNZ", "9">>),
      Instr(<<"CALL", "2">>), Instr(<<"CALL", "3">>),
      Instr(<<"RET">>), Instr(<<"HALT">>), Instr(<<"PRINT">>), Instr(<<"READ">>) }

\* lines of the sources that exercise the loader
LoadLines ==
    { BlankLine, CommentLine, EmptyLabelLine,
      Label("a"), Label("b"), Commented(Label("a")),
      Instr(<<"JMP", "a">>), Instr(<<"JZ", "b">>), Instr(<<"CALL", "a">>),
      Instr(<<"JNZ", "c">>), Instr(<<"JMP", "1">>), Instr(<<"JMP">>),
      Instr(<<"PUSH", "1">>), Instr(<<"push", "2">>), Instr(<<"PUSH", "x">>),
      Instr(<<"PUSH">>), Commented(Instr(<<"PUSH", "0">>)),
      Instr(<<"STORE", "x">>), Instr(<<"STORE", "5">>), Instr(<<"LOAD", "x">>),
      Instr(<<"LOAD", "5">>), Instr(<<"LOAD">>),
      Instr(<<"ADD">>), Instr(<<"ADD", "5">>), Instr(<<"PRINT">>),
      Instr(<<"FOO">>), Instr(<<"FOO", "1">>), Instr(<<"HALT">>),
      Instr(<<"READ">>) }

\* the read loop of the specification's scenario
ReadLoopSource ==
    << Label("loop"), Instr(<<"READ">>), Instr(<<"JZ", "end">>),
       Instr(<<"PRINT">>), Instr(<<"JMP", "loop">>), Label("end"),
       Instr(<<"HALT">>) >>

ReadLoopInput == <<"3", "5", "0">>

\* PUSH a / PUSH b / ADD / PRINT
PushAddPrintSource(a, b) ==
    << Instr(<<"PUSH", a>>), Instr(<<"PUSH", b>>), Instr(<<"ADD">>),
       Instr(<<"PRINT">>) >>

OperandTexts == {"-3", "0", "2", "10"}

\* a routine f that calls a routine g; both leave the stack as they found it
NestedCallSource ==
    << Instr(<<"PUSH", "2">>), Instr(<<"CALL", "f">>), Instr(<<"PRINT">>),
       Instr(<<"HALT">>),
       Label("f"), Instr(<<"CALL", "g">>), Instr(<<"PUSH", "0">>),
       Instr(<<"POP">>), Instr(<<"RET">>),
       Label("g"), Instr(<<"PUSH", "-3">>), Instr(<<"STORE", "x">>),
       Instr(<<"RET">>) >>

\* PUSH 10 / PUSH 0 / DIV / HALT
DivByZeroSource ==
    << Instr(<<"PUSH", "10">>), Instr(<<"PUSH", "0">>), Instr(<<"DIV">>),
       Instr(<<"HALT">>) >>

\* PUSH a / STORE first / PUSH b / STORE x / LOAD x
StoreLoadSource(a, first, b) ==
    << Instr(<<"PUSH", a>>), Instr(<<"STORE", first>>), Instr(<<"PUSH", b>>),
       Instr(<<"STORE", "x">>), Instr(<<"LOAD", "x">>) >>

\* a routine that leaves one value more than it found before it returns
ExtraValueSource ==
    << Instr(<<"CALL", "f">>), Instr(<<"PRINT">>), Instr(<<"HALT">>),
       Label("f"), Instr(<<"PUSH", "2">>), Instr(<<"RET">>) >>

\* a CALL to a label declared after the last instruction
CallEndLabelSource ==
    << Instr(<<"PUSH", "2">>), Instr(<<"CALL", "end">>), Label("end") >>

Scenarios ==
    { ReadLoopSource, NestedCallSource, DivByZeroSource, ExtraValueSource,
      CallEndLabelSource }
      \cup { PushAddPrintSource(a, b) : a, b \in OperandTexts }
      \cup { StoreLoadSource(a, first, b) :
                a \in OperandTexts, first \in {"x", "y"}, b \in OperandTexts }

Inputs == { <<>>, ReadLoopInput, <<"abc">>, <<"2">> }

\* whether some line of the source names the opcode READ
HasRead(src) ==
    \E i \in 1..Len(src) : src[i].toks # <<>> /\ Upper(src[i].toks[1]) = "READ"

\* instruction lines of the programs that exercise the operators and the
\* instructions that pop
OpLines ==
    { Instr(<<"PUSH", "-3">>), Instr(<<"PUSH", "0">>), Instr(<<"PUSH", "2">>),
      Instr(<<"PUSH", "5">>),
      Instr(<<"ADD">>), Instr(<<"SUB">>), Instr(<<"MUL">>), Instr(<<"DIV">>),
      Instr(<<"MOD">>),
      Instr(<<"EQ">>), Instr(<<"NEQ">>), Instr(<<"LT">>), Instr(<<"GT">>),
      Instr(<<"LE">>), Instr(<<"GE">>),
      Instr(<<"POP">>), Instr(<<"NEG">>), Instr(<<"STORE", "x">>),
      Instr(<<"JZ", "0">>), Instr(<<"JNZ", "0">>), Instr(<<"RET">>),
      Instr(<<"PRINT">>) }

\* instruction lines of the programs that exercise the jump targets
JumpTargetTexts == {"-1", "0", "1", "3", "4", "5"}

JumpLines ==
    { Instr(<<"PUSH", "0">>), Instr(<<"PUSH", "2">>), Instr(<<"HALT">>) }
      \cup { Instr(<<op, t>>) : op \in JumpOpcodes, t \in JumpTargetTexts }

RunSources == Scenarios \cup SeqsUpTo(RunLines, MaxLines)
LoadSources == Scenarios \cup SeqsUpTo(LoadLines, MaxLines)
OpSources == Scenarios \cup SeqsUpTo(OpLines, MaxLines)
JumpSources == Scenarios \cup SeqsUpTo(JumpLines, MaxLines)

----------------------------------------------------------------------------
(* The state machine *)

\* __init__, with the text and the input the run is given
InitWith(Sources) ==
    /\ source \in Sources
    /\ stdin \in (IF HasRead(source) THEN Inputs ELSE {<<>>})
    /\ nread = 0
    /\ frames = <<>>
    /\ prev = <<>>
    /\ stack = <<>>
    /\ memory = EmptyDict
    /\ instructions = <<>>
    /\ ip = 0
    /\ labels = EmptyDict
    /\ halted = FALSE
    /\ out = <<>>
    /\ err = <<>>
    /\ pc = "start"
    /\ steps = 0
    /\ runs = 0

Init == InitWith(RunSources)

InitLoad == InitWith(LoadSources)

InitOps == InitWith(OpSources)

InitJump == InitWith(JumpSources)

\* a load that reports the fault and leaves self.halted alone
HaltedAfterPassUnset(fault, old_halted) == old_halted

\* self.halted after a pass of load_bytecode that ended with that fault (or none)
HaltedAfterPass(fault, old_halted) == IF fault # <<>> THEN TRUE ELSE old_halted

\* load_bytecode(bytecode_text)
LoadBytecode ==
    /\ pc = "start"
    /\ LET p1 == Pass1(source, 1, Pass1Start(labels)) IN
       IF p1.fault # <<>>
       THEN /\ labels' = p1.labels
            /\ err' = Append(err, p1.fault[1])
            /\ halted' = HaltedAfterPass(p1.fault, halted)
            /\ UNCHANGED instructions
       ELSE LET p2 == Pass2(p1.raw, 1, p1.labels, Pass2Start(instructions)) IN
            /\ labels' = p1.labels
            /\ instructions' = p2.instructions
            /\ err' = IF p2.fault # <<>> THEN Append(err, p2.fault[1]) ELSE err
            /\ halted' = HaltedAfterPass(p2.fault, halted)
    /\ pc' = "loaded"
    /\ UNCHANGED <<source, stdin, nread, stack, memory, ip, out, steps, runs,
                   frames, prev>>

\* run() is entered: it returns at once when halted, else reaches its loop
RunCall ==
    /\ pc \in {"loaded", "returned"}
    /\ runs < MaxRuns
    /\ runs' = runs + 1
    /\ pc' = IF halted THEN "returned" ELSE "running"
    /\ UNCHANGED <<source, stdin, nread, labels, instructions, stack, memory,
                   ip, halted, out, err, steps, frames, prev>>

\* a loop that goes on after halted is set
LoopConditionIgnoringHalted == ip < Len(instructions)

\* the while condition of run
LoopCondition == ip < Len(instructions) /\ ~halted

\* one iteration of the while loop of run
Step ==
    /\ pc = "running"
    /\ LoopCondition
    /\ steps < MaxSteps
    /\ LET instruction_data == instructions[ip + 1]
           opcode == instruction_data.opcode
           args == instruction_data.args
           original_line_num == instruction_data.original_line_num
           current_ip_for_reporting == ip
           r == Dispatch(opcode, args, original_line_num, current_ip_for_reporting)
       IN
       /\ stack' = r.stack
       /\ memory' = r.memory
       /\ out' = r.out
       /\ nread' = r.nread
       /\ frames' = NextFrames(frames, opcode, current_ip_for_reporting, stack,
                               r.exc # <<>>)
       /\ prev' = <<[opcode |-> opcode, args |-> args, stack |-> stack,
                     memory |-> memory, faulted |-> r.exc # <<>>]>>
       /\ IF r.exc # <<>>
          THEN /\ err' = Append(r.err,
                           RuntimeDiagnostic(r.exc[1], current_ip_for_reporting,
                                             original_line_num, opcode))
               /\ halted' = TRUE
               /\ ip' = r.ip
          ELSE /\ err' = r.err
               /\ halted' = r.halted
               /\ ip' = IF ~r.halted /\ r.inc > 0 THEN r.ip + r.inc ELSE r.ip
    /\ steps' = steps + 1
    /\ UNCHANGED <<source, stdin, labels, instructions, pc, runs>>

\* the while condition of run fails: run returns
RunReturn ==
    /\ pc = "running"
    /\ ~LoopCondition
    /\ pc' = "returned"
    /\ UNCHANGED <<source, stdin, nread, labels, instructions, stack, memory,
                   ip, halted, out, err, steps, runs, frames, prev>>

Next == LoadBytecode \/ RunCall \/ Step \/ RunReturn

Spec == Init /\ [][Next]_vars

SpecLoad == InitLoad /\ [][Next]_vars

SpecOps == InitOps /\ [][Next]_vars

SpecJump == InitJump /\ [][Next]_vars

----------------------------------------------------------------------------
(* Vocabulary of the properties *)

LoadFaultKinds == {"EmptyLabel", "DuplicateLabel", "UndefinedLabel", "ParseError"}

RuntimeFaultKinds ==
    {"StackUnderflow", "DivideByZero", "UndefinedVariable", "InvalidAddress",
     "InvalidReturnAddress", "InvalidInput", "UnknownOpcode"}

\* the loop of run is about to dispatch an instruction with that opcode
Dispatching(opcode) ==
    /\ pc = "running" /\ ~halted /\ ip < Len(instructions)
    /\ instructions[ip + 1].opcode = opcode

\* this step is one iteration of the loop of run
Stepped == steps' = steps + 1

\* this step is an iteration of the loop that ended in the except clause
Faulted ==
    /\ Stepped
    /\ Len(err') = Len(err) + 1
    /\ err'[Len(err')].kind \in RuntimeFaultKinds

\* load_bytecode has returned after a fault
LoadFailed ==
    pc # "start" /\ err # <<>> /\ err[1].kind \in LoadFaultKinds

----------------------------------------------------------------------------
(* C1 *)

\* C1, as stated: the read loop with the input lines 3, 5, 0 prints 3 and 5,
\* consumes the terminating 0 without printing it and halts by HALT with no
\* diagnostic.
C1_Original ==
    (source = ReadLoopSource /\ stdin = ReadLoopInput /\ pc = "returned")
        => (out = <<3, 5>> /\ halted /\ err = <<>> /\ nread = 3)

\* C1, amended: the read loop with the input lines 3, 5, 0 reads 3, JZ pops it
\* and falls through, and PRINT then finds the stack empty: StackUnderflow at
\* instruction index 2 (source line 4); nothing is printed, one input line is
\* consumed and the fault sets halted.
C1_ReadLoopUnderflows ==
    (source = ReadLoopSource /\ stdin = ReadLoopInput /\ pc = "returned")
        => /\ out = <<>>
           /\ halted
           /\ err = <<RuntimeDiagnostic("StackUnderflow", 2, 4, "PRINT")>>
           /\ nread = 1
           /\ stack = <<>>
           /\ ip = 2

C1_Witness ==
    /\ source = ReadLoopSource /\ stdin = ReadLoopInput /\ pc = "returned"
    /\ steps = 3 /\ halted

----------------------------------------------------------------------------
(* C2 *)

\* C2, as stated: DIV or MOD on a stack of depth >= 2 whose top is 0 fails
\* with DivideByZero, halts, and leaves the stack as it was before the
\* instruction.
C2_Original ==
    [][ ( /\ Dispatching("DIV") \/ Dispatching("MOD")
          /\ Len(stack) >= 2 /\ Top(stack) = 0
          /\ Stepped )
        => ( /\ halted'
             /\ Faulted /\ err'[Len(err')].kind = "DivideByZero"
             /\ stack' = stack ) ]_vars

----------------------------------------------------------------------------
(* C3 *)

\* C3, as stated: after any runtime fault the stack, the variable store and
\* ip are what they were before the faulting instruction was dispatched.
C3_Original ==
    [][ Faulted => (stack' = stack /\ memory' = memory /\ ip' = ip) ]_vars

----------------------------------------------------------------------------
(* Vocabulary of the loader's properties, read off the source text *)

RecognizedOpcodes ==
    {"PUSH", "POP", "ADD", "SUB", "MUL", "DIV", "MOD", "NEG", "STORE", "LOAD",
     "JMP", "JZ", "JNZ", "CALL", "RET", "HALT", "EQ", "NEQ", "LT", "GT", "LE",
     "GE", "PRINT", "READ"}

IsLabelLine(l) == l.colon
IsInstrLine(l) == ~l.colon /\ l.toks # <<>>

\* number of instruction lines among the lines 1..n-1 of the source
InstrLinesBefore(n) ==
    Cardinality({m \in 1..(n - 1) : IsInstrLine(source[m])})

\* line n is a label line with an empty name, or one that redeclares a name
EmptyNameAt(n) == IsLabelLine(source[n]) /\ source[n].toks = <<>>
RedeclaredAt(n) ==
    /\ IsLabelLine(source[n]) /\ source[n].toks # <<>>
    /\ \E m \in 1..(n - 1) : IsLabelLine(source[m]) /\ source[m].toks = source[n].toks

\* line n is the second declaration of its label name
SecondDeclarationAt(n) ==
    /\ IsLabelLine(source[n]) /\ source[n].toks # <<>>
    /\ Cardinality({m \in 1..(n - 1) :
                      IsLabelLine(source[m]) /\ source[m].toks = source[n].toks}) = 1

\* line n is STORE or LOAD with exactly one non-empty operand token
StoreLoadLine(n) ==
    /\ IsInstrLine(source[n]) /\ Len(source[n].toks) = 2
    /\ Upper(source[n].toks[1]) \in {"STORE", "LOAD"}
    /\ source[n].toks[2] # ""

\* the instructions loaded from line n of the source
LoadedFrom(n) ==
    {k \in 1..Len(instructions) : instructions[k].original_line_num = n}

LoadSucceeded == pc # "start" /\ ~LoadFailed

----------------------------------------------------------------------------
(* C4 *)

\* C4, as stated: a source with an instruction line whose opcode is not one
\* of the 24 recognized ones fails to load (halted is set by the loader), so
\* after a successful load every instruction has a recognized opcode and no
\* run ever reports UnknownOpcode.
C4_Original ==
    /\ (pc # "start" /\ \E n \in 1..Len(source) :
            IsInstrLine(source[n]) /\ Upper(source[n].toks[1]) \notin RecognizedOpcodes)
          => LoadFailed /\ halted
    /\ LoadSucceeded =>
          \A k \in 1..Len(instructions) : instructions[k].opcode \in RecognizedOpcodes
    /\ \A j \in 1..Len(err) : err[j].kind # "UnknownOpcode"

----------------------------------------------------------------------------
(* C5 *)

\* C5, as stated: a STORE or LOAD line with exactly one non-empty operand
\* token never makes the load fail, and the instruction loaded from it keeps
\* that token as its operand, numeric-looking or not.
C5_Original ==
    pc # "start" =>
      \A n \in 1..Len(source) :
        StoreLoadLine(n) =>
          /\ ~(LoadFailed /\ err[1].line = n)
          /\ (LoadSucceeded => LoadedFrom(n) # {})
          /\ \A k \in LoadedFrom(n) : instructions[k].args = <<source[n].toks[2]>>

\* C5, amended: a STORE or LOAD line with exactly one non-empty operand token
\* that int() does not accept never makes the load fail and keeps the token
\* as the variable-name string; when the token is numeric-looking (STORE 5)
\* the line is rejected: no instruction is ever loaded from it and the load
\* fails (with ParseError at that line unless an earlier fault stopped it).
C5_StoreLoadOperand ==
    pc # "start" =>
      \A n \in 1..Len(source) :
        StoreLoadLine(n) =>
          IF source[n].toks[2] \notin DOMAIN IntLiteral
          THEN /\ ~(LoadFailed /\ err[1].line = n)
               /\ (LoadSucceeded => LoadedFrom(n) # {})
               /\ \A k \in LoadedFrom(n) :
                     instructions[k].args = <<source[n].toks[2]>>
          ELSE /\ LoadedFrom(n) = {}
               /\ LoadFailed /\ halted
               /\ ( /\ err[1].kind \in {"UndefinedLabel", "ParseError"}
                     /\ Len(instructions) = InstrLinesBefore(n) )
                     => err[1] = LoadFault("ParseError", n, Upper(source[n].toks[1]))

C5_Witness ==
    /\ pc = "loaded" /\ Len(source) = 2
    /\ source[1] = Instr(<<"STORE", "x">>) /\ source[2] = Instr(<<"LOAD", "5">>)
    /\ Len(instructions) = 1 /\ instructions[1].args = <<"x">>
    /\ err = <<LoadFault("ParseError", 2, "LOAD")>>

----------------------------------------------------------------------------
(* C6 *)

\* C6: once load_bytecode has failed, halted is set and stays set, exactly one
\* diagnostic exists, and however often run() is called afterwards it never
\* reaches its loop: no instruction is dispatched, the stack and the variable
\* store stay empty, ip stays 0 and nothing is printed.  The load stopped at
\* the line where the failing pass first failed: a pass-1 fault at label line
\* n leaves no instruction and exactly the labels declared before n; a pass-2
\* fault at instruction line n leaves exactly the instructions of the
\* instruction lines before n.
C6_LoadFailureStopsRun ==
    LoadFailed =>
      /\ halted /\ Len(err) = 1
      /\ pc \in {"loaded", "returned"}
      /\ steps = 0 /\ stack = <<>> /\ DOMAIN memory = {} /\ ip = 0 /\ out = <<>>
      /\ LET n == err[1].line IN
         /\ n \in 1..Len(source)
         /\ err[1].kind \in {"EmptyLabel", "DuplicateLabel"} =>
              /\ IsLabelLine(source[n])
              /\ instructions = <<>>
              /\ DOMAIN labels =
                   {source[m].toks : m \in {i \in 1..(n - 1) : IsLabelLine(source[i])}}
         /\ err[1].kind \in {"UndefinedLabel", "ParseError"} =>
              /\ IsInstrLine(source[n])
              /\ Len(instructions) = InstrLinesBefore(n)
              /\ \A k \in 1..Len(instructions) : instructions[k].original_line_num < n

C6_Witness ==
    /\ LoadFailed /\ err[1].kind = "ParseError" /\ err[1].line = 3
    /\ Len(instructions) = 2
    /\ pc = "returned" /\ runs = 2 /\ steps = 0

----------------------------------------------------------------------------
(* C8 *)

\* C8: after a successful load every label maps to the number of instruction
\* lines that precede its declaration, instruction k is the k-th instruction
\* line of the source, and a JMP/JZ/JNZ/CALL whose operand is a label name
\* carries that label's index.
C8_LabelsCountInstructionLines ==
    LoadSucceeded =>
      /\ DOMAIN labels = {source[n].toks : n \in {i \in 1..Len(source) : IsLabelLine(source[i])}}
      /\ \A n \in 1..Len(source) :
           IsLabelLine(source[n]) => labels[source[n].toks] = InstrLinesBefore(n)
      /\ Len(instructions) = InstrLinesBefore(Len(source) + 1)
      /\ \A n \in 1..Len(source) :
           IsInstrLine(source[n]) =>
             LET k == InstrLinesBefore(n) + 1
                 toks == source[n].toks
             IN
             /\ instructions[k].original_line_num = n
             /\ instructions[k].opcode = Upper(toks[1])
             /\ (Upper(toks[1]) \in JumpOpcodes /\ toks[2] \notin DOMAIN IntLiteral) =>
                  \E m \in 1..Len(source) :
                    /\ IsLabelLine(source[m]) /\ source[m].toks = <<toks[2]>>
                    /\ instructions[k].args = <<InstrLinesBefore(m)>>

\* a forward reference to a label declared after the last instruction, next
\* to a second label with the same index
C8_Witness ==
    /\ LoadSucceeded /\ Len(source) = 3
    /\ source[1] = Instr(<<"JMP", "a">>)
    /\ source[2] = Label("b") /\ source[3] = Label("a")
    /\ Len(instructions) = 1 /\ instructions[1].args = <<1>>
    /\ labels[<<"a">>] = 1 /\ labels[<<"b">>] = 1

----------------------------------------------------------------------------
(* C9 *)

\* C9, as stated: the second declaration of a label name always makes the load
\* fail with DuplicateLabel at that line, and a label line with an empty name
\* makes it fail with EmptyLabel, whatever the other lines are; halted is set,
\* nothing is dispatched, nothing is printed.
C9_Original ==
    pc # "start" =>
      \A n \in 1..Len(source) :
        /\ SecondDeclarationAt(n) =>
             /\ halted /\ steps = 0 /\ out = <<>>
             /\ err = <<LoadFault("DuplicateLabel", n, "")>>
        /\ EmptyNameAt(n) =>
             /\ halted /\ steps = 0 /\ out = <<>>
             /\ Len(err) = 1 /\ err[1].kind = "EmptyLabel"

\* C9, amended: a source with a redeclared label name or an empty label name
\* always fails to load at the first such line in source order, with
\* DuplicateLabel if that line redeclares a name and EmptyLabel if its name is
\* empty, whatever the other lines are (also when an earlier line would fail
\* pass 2); halted is set, nothing is dispatched, nothing is printed.
C9_FirstLabelFault ==
    pc # "start" =>
      \A n \in 1..Len(source) :
        ( /\ EmptyNameAt(n) \/ RedeclaredAt(n)
          /\ \A m \in 1..(n - 1) : ~(EmptyNameAt(m) \/ RedeclaredAt(m)) )
        => /\ halted /\ steps = 0 /\ out = <<>>
           /\ err = <<LoadFault(IF EmptyNameAt(n) THEN "EmptyLabel" ELSE "DuplicateLabel",
                                n, "")>>

C9_Witness ==
    /\ pc = "returned" /\ Len(source) = 3
    /\ source[1] = Instr(<<"PUSH", "x">>)
    /\ source[2] = Label("a") /\ source[3] = Label("a")
    /\ err = <<LoadFault("DuplicateLabel", 3, "")>>

----------------------------------------------------------------------------
(* C7 *)

\* C7: when RET is dispatched while the innermost call in progress (made at
\* index i on stack s) has kept its return address untouched and the stack is
\* back at the depth the routine was entered with, RET sets ip to i+1 and
\* leaves the stack equal to s, without a fault; nested calls included.
C7_BalancedReturn ==
    [][ ( /\ Dispatching("RET") /\ Stepped
          /\ frames # <<>>
          /\ Len(stack) = Len(frames[Len(frames)].base) + 1 )
        => ( /\ ip' = frames[Len(frames)].ret
             /\ stack' = frames[Len(frames)].base
             /\ ~halted' /\ err' = err ) ]_vars

\* the state after the outer routine of the nested scenario has returned
C7_Witness ==
    /\ source = NestedCallSource /\ pc = "running"
    /\ steps = 9 /\ ip = 2 /\ stack = <<2>> /\ frames = <<>>
    /\ "x" \in DOMAIN memory

----------------------------------------------------------------------------
(* C10 *)

\* C10: PRINT on a non-empty stack appends the top value to the output and
\* changes nothing else but ip, which advances by 1; and PUSH a / PUSH b /
\* ADD / PRINT prints a+b once and ends with the stack <<a+b>>.
C10_PrintPeeks ==
    /\ [][ (Dispatching("PRINT") /\ Stepped /\ stack # <<>>)
           => ( /\ out' = Append(out, Top(stack))
                /\ stack' = stack /\ memory' = memory /\ halted' = halted
                /\ err' = err /\ nread' = nread
                /\ ip' = ip + 1 ) ]_vars
    /\ [](\A a, b \in OperandTexts :
            (source = PushAddPrintSource(a, b) /\ pc = "returned")
              => /\ out = <<IntLiteral[a] + IntLiteral[b]>>
                 /\ stack = <<IntLiteral[a] + IntLiteral[b]>>
                 /\ ~halted /\ err = <<>> /\ ip = 4)

C10_Witness ==
    /\ source = PushAddPrintSource("-3", "10") /\ pc = "returned"
    /\ out = <<7>> /\ stack = <<7>>

----------------------------------------------------------------------------
(* Vocabulary of the engine's properties *)

\* the instruction the loop is about to dispatch
Current == instructions[ip + 1]

\* this step is an iteration of the loop that printed no diagnostic
NoDiagnostic == err' = err

\* this step ended in the except clause with that kind of fault
FaultedWith(kind) == Faulted /\ err'[Len(err')].kind = kind /\ halted'

\* t is an index of the program or its length
InRange(t) == 0 <= t /\ t <= Len(instructions)

----------------------------------------------------------------------------
(* C11 *)

\* C11: when LOAD x is dispatched right after a STORE x that did not fault,
\* the stack becomes what it was before the STORE (the stored value v on
\* top), x is bound to v, and every other variable is bound as it was before
\* the STORE; LOAD x while x is unbound fails with UndefinedVariable, halts
\* and pushes nothing.
C11_StoreLoadRoundTrip ==
    [][ /\ ( /\ Dispatching("LOAD") /\ Stepped
             /\ prev # <<>> /\ prev[1].opcode = "STORE" /\ ~prev[1].faulted
             /\ prev[1].args = Current.args )
          => LET x == Current.args[1]
                 before == prev[1]
             IN
             /\ stack' = before.stack
             /\ NoDiagnostic /\ ~halted'
             /\ memory' = memory
             /\ memory[x] = Top(before.stack)
             /\ DOMAIN memory = DOMAIN before.memory \cup {x}
             /\ \A y \in DOMAIN before.memory \ {x} : memory[y] = before.memory[y]
        /\ ( /\ Dispatching("LOAD") /\ Stepped
             /\ Current.args[1] \notin DOMAIN memory )
          => /\ FaultedWith("UndefinedVariable")
             /\ stack' = stack /\ memory' = memory /\ ip' = ip ]_vars

\* y bound to 2, then STORE x of -3 and LOAD x: -3 is back on the stack
C11_Witness ==
    /\ source = StoreLoadSource("2", "y", "-3") /\ pc = "returned"
    /\ prev # <<>> /\ prev[1].opcode = "LOAD"
    /\ stack = <<-3>> /\ memory["x"] = -3 /\ memory["y"] = 2 /\ ~halted

----------------------------------------------------------------------------
(* C12 *)

\* C12: once halted is true it stays true, and no later step (of the loop or
\* of a new call of run) dispatches an instruction or changes the stack, the
\* variable store, ip, the output, the diagnostics or the input position.
C12_HaltedAbsorbs ==
    [][ halted => ( /\ halted'
                    /\ UNCHANGED <<stack, memory, ip, out, err, nread, steps,
                                   labels, instructions>> ) ]_vars

C12_Witness ==
    /\ halted /\ pc = "returned" /\ runs = 2
    /\ steps = 3 /\ out # <<>> /\ err = <<>> /\ ip = 2

----------------------------------------------------------------------------
(* C13 *)

\* C13: JMP t sets ip to t when 0 <= t <= N and fails with InvalidAddress
\* otherwise; JZ t / JNZ t on a non-empty stack pop one value, and only when
\* the condition holds check t the same way and set ip to t, otherwise ip
\* advances by 1 whatever t is; with ip = N and halted false the run returns
\* with halted still false and no diagnostic.
C13_JumpTargets ==
    [][ /\ (Dispatching("JMP") /\ Stepped)
          => IF InRange(Current.args[1])
             THEN /\ ip' = Current.args[1] /\ stack' = stack
                  /\ NoDiagnostic /\ ~halted'
             ELSE /\ FaultedWith("InvalidAddress") /\ ip' = ip /\ stack' = stack
        /\ ( /\ Dispatching("JZ") \/ Dispatching("JNZ")
             /\ Stepped /\ stack # <<>> )
          => /\ stack' = Pop(stack)
             /\ IF (Current.opcode = "JZ") <=> (Top(stack) = 0)
                THEN IF InRange(Current.args[1])
                     THEN ip' = Current.args[1] /\ NoDiagnostic /\ ~halted'
                     ELSE FaultedWith("InvalidAddress") /\ ip' = ip
                ELSE ip' = ip + 1 /\ NoDiagnostic /\ ~halted'
        /\ (pc = "running" /\ ip = Len(instructions) /\ ~halted)
          => (pc' = "returned" /\ ~halted' /\ NoDiagnostic) ]_vars

\* JMP 3 at index 0 of a three-instruction program: the run has returned
C13_Witness ==
    /\ pc = "returned" /\ ~halted /\ err = <<>>
    /\ Len(instructions) = 3 /\ ip = 3 /\ steps = 1
    /\ prev # <<>> /\ prev[1].opcode = "JMP"

----------------------------------------------------------------------------
(* C14 *)

\* C14: CALL t at index i pushes i+1 and sets ip to t when 0 <= t < N, and
\* otherwise (t = N included) fails with InvalidAddress, halts and leaves the
\* stack and ip as they were.
C14_CallTargets ==
    [][ (Dispatching("CALL") /\ Stepped)
          => IF 0 <= Current.args[1] /\ Current.args[1] < Len(instructions)
             THEN /\ stack' = Append(stack, ip + 1) /\ ip' = Current.args[1]
                  /\ NoDiagnostic /\ ~halted'
             ELSE /\ FaultedWith("InvalidAddress")
                  /\ stack' = stack /\ ip' = ip ]_vars

C14_Witness ==
    /\ source = CallEndLabelSource /\ pc = "returned" /\ halted
    /\ labels[<<"end">>] = Len(instructions)
    /\ stack = <<2>> /\ ip = 1
    /\ err = <<RuntimeDiagnostic("InvalidAddress", 1, 2, "CALL")>>

----------------------------------------------------------------------------
(* C15 *)

\* C15: READ with input left consumes one line; a line int() accepts is
\* pushed and ip advances by 1, any other line fails with InvalidInput (halt,
\* nothing pushed).  READ with no input left sets halted, prints the
\* end-of-input diagnostic (and no other), pushes nothing, consumes nothing
\* and leaves ip where it was.
C15_Read ==
    [][ (Dispatching("READ") /\ Stepped)
          => IF nread < Len(stdin)
             THEN /\ nread' = nread + 1
                  /\ IF stdin[nread + 1] \in DOMAIN IntLiteral
                     THEN /\ stack' = Append(stack, IntLiteral[stdin[nread + 1]])
                          /\ ip' = ip + 1 /\ NoDiagnostic /\ ~halted'
                     ELSE /\ FaultedWith("InvalidInput")
                          /\ stack' = stack /\ ip' = ip
             ELSE /\ halted'
                  /\ err' = Append(err, EofDiagnostic(Current.original_line_num, "READ"))
                  /\ stack' = stack /\ ip' = ip /\ nread' = nread ]_vars

C15_Witness ==
    /\ stdin = <<"2">> /\ nread = 1 /\ halted
    /\ stack = <<2>> /\ ip = 1
    /\ Len(err) = 1 /\ err[1].kind = "EndOfInput"

----------------------------------------------------------------------------
(* C16 *)

\* the diagnostic d names the source line the instruction being dispatched
\* was loaded from, and its opcode
NamesSourceLine(d) ==
    /\ d.line = Current.original_line_num
    /\ d.opcode = Current.opcode
    /\ d.line \in 1..Len(source)
    /\ IsInstrLine(source[d.line])
    /\ Upper(source[d.line].toks[1]) = d.opcode

C16_WitnessDivByZero ==
    /\ source = DivByZeroSource /\ pc = "returned" /\ runs = 1
    /\ halted /\ out = <<>> /\ steps = 3
    /\ err = <<RuntimeDiagnostic("DivideByZero", 2, 3, "DIV")>>

----------------------------------------------------------------------------
(* C17 *)

\* the dispatch about to happen is a JZ or JNZ whose condition holds
TakenBranch ==
    /\ Current.opcode \in {"JZ", "JNZ"}
    /\ stack # <<>>
    /\ (Current.opcode = "JZ") <=> (Top(stack) = 0)

\* C17: ip is always between 0 and the program length and is 0 until the
\* first dispatch; a dispatch that prints no diagnostic and is not JMP, CALL,
\* RET, HALT or a taken JZ/JNZ advances ip by exactly 1; when run has
\* returned, halted is true or ip is the program length; and with ip at the
\* program length and halted false the run returns with no diagnostic and
\* halted still false.
C17_PcRange ==
    /\ [](0 <= ip /\ ip <= Len(instructions))
    /\ [](steps = 0 => ip = 0)
    /\ [](pc = "returned" => (halted \/ ip = Len(instructions)))
    /\ [][ /\ ( /\ pc = "running" /\ Stepped /\ NoDiagnostic
                /\ Current.opcode \notin {"JMP", "CALL", "RET", "HALT"}
                /\ ~TakenBranch )
             => (ip' = ip + 1 /\ ~halted')
           /\ (pc = "running" /\ ip = Len(instructions) /\ ~halted)
             => (pc' = "returned" /\ NoDiagnostic /\ ~halted' /\ ip' = ip) ]_vars

\* three instructions dispatched one after the other, then off the end
C17_Witness ==
    /\ pc = "returned" /\ ~halted /\ err = <<>>
    /\ Len(instructions) = 3 /\ ip = 3 /\ steps = 3

----------------------------------------------------------------------------
(* C18 *)

ArithOpcodes == {"ADD", "SUB", "MUL", "DIV", "MOD"}
CompareOpcodes == {"EQ", "NEQ", "LT", "GT", "LE", "GE"}

Abs(n) == IF n < 0 THEN 0 - n ELSE n

\* r is a remainder of a division by b: 0 or of the sign of b, and smaller
IsFloorRemainder(r, b) ==
    /\ Abs(r) < Abs(b)
    /\ r = 0 \/ ((r > 0) <=> (b > 0))

\* C18: a binary operator dispatched on a stack ... a b replaces a and b by
\* one result: a+b, a-b, a*b; 1 or 0 as a <rel> b holds or not; and for
\* b # 0 the q of DIV and the r of MOD satisfy a = q*b + r with r zero or of
\* the sign of b (and smaller than b in absolute value).
C18_BinaryOperators ==
    [][ ( /\ pc = "running" /\ Stepped
          /\ Current.opcode \in ArithOpcodes \cup CompareOpcodes
          /\ Len(stack) >= 2
          /\ ~(Current.opcode \in {"DIV", "MOD"} /\ Top(stack) = 0) )
        => LET a == stack[Len(stack) - 1]
               b == stack[Len(stack)]
               op == Current.opcode
               res == stack'[Len(stack')]
               rel == CASE op = "EQ" -> a = b
                        [] op = "NEQ" -> a # b
                        [] op = "LT" -> a < b
                        [] op = "GT" -> a > b
                        [] op = "LE" -> a <= b
                        [] op = "GE" -> a >= b
                        [] OTHER -> FALSE
           IN
           /\ NoDiagnostic /\ ~halted' /\ ip' = ip + 1
           /\ Len(stack') = Len(stack) - 1
           /\ Pop(stack') = Pop2(stack)
           /\ CASE op = "ADD" -> res = a + b
                [] op = "SUB" -> res = a - b
                [] op = "MUL" -> res = a * b
                [] op = "DIV" -> IsFloorRemainder(a - res * b, b)
                [] op = "MOD" ->
                     /\ IsFloorRemainder(res, b)
                     /\ \E q \in (0 - Abs(a) - 1)..(Abs(a) + 1) : a = q * b + res
                [] OTHER -> res = (IF rel THEN 1 ELSE 0) ]_vars

\* -3 divided by 2: the quotient is -2 (remainder 1), not -1
C18_Witness ==
    /\ prev # <<>> /\ prev[1].opcode = "DIV" /\ prev[1].stack = <<0 - 3, 2>>
    /\ stack = <<0 - 2>> /\ ~halted /\ err = <<>>

----------------------------------------------------------------------------
(* C19 *)

\* C19: POP, NEG, STORE, JZ, JNZ, RET and PRINT dispatched on an empty stack,
\* and a binary operator dispatched on a stack of depth 0 or 1, fault
\* StackUnderflow and leave the stack, the variable store and ip as they were.
C19_UnderflowKeepsOperands ==
    [][ ( /\ pc = "running" /\ Stepped
          /\ \/ /\ Current.opcode \in {"POP", "NEG", "STORE", "JZ", "JNZ", "RET", "PRINT"}
                /\ stack = <<>>
             \/ /\ Current.opcode \in ArithOpcodes \cup CompareOpcodes
                /\ Len(stack) < 2 )
        => ( /\ FaultedWith("StackUnderflow")
             /\ stack' = stack /\ memory' = memory /\ ip' = ip ) ]_vars

\* LT on a stack holding the single value 5
C19_Witness ==
    /\ prev # <<>> /\ prev[1].opcode = "LT" /\ prev[1].stack = <<5>>
    /\ stack = <<5>> /\ halted /\ ip = 1
    /\ Len(err) = 1 /\ err[1].kind = "StackUnderflow"

----------------------------------------------------------------------------
(* C20 *)

\* C20: RET on a stack whose top v satisfies 0 <= v <= N pops v and sets ip
\* to v without a fault, whether or not a CALL is in progress; and the
\* routine of ExtraValueSource, which pushes 2 before its RET, returns to
\* index 2 (HALT) instead of index 1, so nothing is printed and the return
\* address 1 of the CALL is still on the stack at the end.
C20_RetTakesAnyValue ==
    /\ [][ (Dispatching("RET") /\ Stepped /\ stack # <<>> /\ InRange(Top(stack)))
           => ( /\ ip' = Top(stack) /\ stack' = Pop(stack)
                /\ NoDiagnostic /\ ~halted' ) ]_vars
    /\ [](source = ExtraValueSource /\ pc = "returned"
            => ( /\ stack = <<1>> /\ ip = 2 /\ halted
                 /\ out = <<>> /\ err = <<>> /\ steps = 4 ))

C20_Witness ==
    /\ source = ExtraValueSource /\ pc = "returned"
    /\ stack = <<1>> /\ ip = 2 /\ halted /\ out = <<>> /\ err = <<>>

\* a RET with no CALL before it: PUSH 2 / RET in a two-instruction program
C20_WitnessNoCall ==
    /\ prev # <<>> /\ prev[1].opcode = "RET" /\ prev[1].stack = <<2>>
    /\ frames = <<>> /\ steps = 2 /\ ip = 2 /\ stack = <<>> /\ ~halted

====
